---- MODULE Spec2Model ----
(***************************************************************************)
(* Model of the gamecode-tools JSONRPC dispatcher (src/src/jsonrpc.rs) and *)
(* of its format transformer (src/src/transform.rs).                       *)
(*                                                                         *)
(* Spec           the dispatcher: register and dispatch over one registry  *)
(* SpecTransform  the transformer's pure functions applied to bounded JSON *)
(*                trees                                                    *)
(***************************************************************************)
EXTENDS Integers, Sequences, FiniteSets, TLC

VARIABLES
    handlers,     \* Dispatcher.handlers: method name -> registered handler
    transformer,  \* Dispatcher.transformer: the FormatConfig it holds
    pc,           \* per dispatch call: "idle", "awaiting" (tool running), "done"
    request,      \* per call: the request text handed to dispatch
    typed,        \* per call: the typed params the tool's execute received
    response,     \* per call: the serialized response envelope, if any
    ret,          \* per call: dispatch's Result: "none", "ok" or "err"
    steps,        \* per call: the steps dispatch and the handler have run
    invoked,      \* per call: the registry entries whose closure was called
    executed,     \* per call: the Result the tool's execute returned
    registered,   \* history: per method name, the tool of the latest register
    val,          \* SpecTransform: the JSON value a transform is applied to
    op,           \* SpecTransform: which transform has been applied
    out,          \* SpecTransform: the value that transform returned
    fs,           \* SpecFiles: the file system, path -> node
    fscall,       \* SpecFiles: the last tool call, the file system it found
                  \* and the Result it returned
    find,         \* SpecFind: the locals of FileFind::execute
    built         \* SpecFactory: the factory function that built the
                  \* dispatcher

vars == <<handlers, transformer, pc, request, typed, response, ret, steps,
          invoked, executed, registered, val, op, out, fs, fscall, find,
          built>>

dispatcherVars ==
    <<handlers, pc, request, typed, response, ret, steps, invoked, executed,
      registered>>
transformVars == <<val, op, out>>
toolVars == <<fs, fscall, find, built>>

(***************************************************************************)
(* Bounds                                                                  *)
(***************************************************************************)
MaxCalls == 1        \* dispatch calls in one behaviour
MaxSize == 5         \* nodes of the JSON trees of SpecTransform
MaxConcurrent == 2   \* dispatch calls in flight together in SpecConcurrent
MaxWalk == 4         \* entries the directory walk of SpecFind yields

(***************************************************************************)
(* serde_json::Value as tagged records. An object is a function from its   *)
(* keys to values, an array a sequence of values.                          *)
(***************************************************************************)
Null == [t |-> "null"]
Bool(b) == [t |-> "bool", b |-> b]
Num(n) == [t |-> "num", n |-> n]
Str(s) == [t |-> "str", s |-> s]
Arr(a) == [t |-> "arr", a |-> a]
Obj(m) == [t |-> "obj", m |-> m]

IsObject(v) == v.t = "obj"
IsArray(v) == v.t = "arr"
IsString(v) == v.t = "str"
contains_key(v, k) == k \in DOMAIN v.m

\* A value absent from a slot (Option::None, or a variable not yet set).
None == [t |-> "none"]

\* The number of nodes of a JSON tree.
RECURSIVE Sum(_, _)
Sum(f, S) == IF S = {} THEN 0
             ELSE LET x == CHOOSE x \in S : TRUE IN f[x] + Sum(f, S \ {x})

RECURSIVE Size(_)
Size(v) ==
    CASE IsObject(v) -> 1 + Sum([k \in DOMAIN v.m |-> Size(v.m[k])], DOMAIN v.m)
      [] IsArray(v) -> 1 + Sum([i \in DOMAIN v.a |-> Size(v.a[i])], DOMAIN v.a)
      [] OTHER -> 1

(***************************************************************************)
(* FormatConfig and FormatTransformer                                      *)
(***************************************************************************)
InputFormat == {"Standard", "Bedrock"}
OutputFormat == {"Standard", "Bedrock"}
FormatConfig == [input_format : InputFormat, output_format : OutputFormat]

\* json!({"type": "text", "text": value})
TextWrapper(value) == Obj([type |-> Str("text"), text |-> value])

\* to_bedrock_format with the wrapper test ahead of the object arm, so that
\* an object holding "type" and "text" is returned as it is.
RECURSIVE to_bedrock_guarded(_)
to_bedrock_guarded(value) ==
    CASE IsObject(value) /\ contains_key(value, "type")
                         /\ contains_key(value, "text") -> value
      [] IsObject(value) ->
            Obj([k \in DOMAIN value.m |-> to_bedrock_guarded(value.m[k])])
      [] IsArray(value) ->
            Arr([i \in DOMAIN value.a |-> to_bedrock_guarded(value.a[i])])
      [] OTHER -> TextWrapper(value)

\* to_bedrock_format that leaves a null as it is.
RECURSIVE to_bedrock_skip_null(_)
to_bedrock_skip_null(value) ==
    CASE IsObject(value) ->
            Obj([k \in DOMAIN value.m |-> to_bedrock_skip_null(value.m[k])])
      [] IsArray(value) ->
            Arr([i \in DOMAIN value.a |-> to_bedrock_skip_null(value.a[i])])
      [] value = Null -> value
      [] OTHER -> TextWrapper(value)

RECURSIVE to_bedrock_format(_)
to_bedrock_format(value) ==
    CASE IsObject(value) ->
            Obj([k \in DOMAIN value.m |-> to_bedrock_format(value.m[k])])
      [] IsArray(value) ->
            Arr([i \in DOMAIN value.a |-> to_bedrock_format(value.a[i])])
      [] OTHER ->
            \* the arm for everything that is neither object nor array
            IF IsObject(value) /\ contains_key(value, "type")
                               /\ contains_key(value, "text")
            THEN value
            ELSE TextWrapper(value)

\* from_bedrock_format that returns a wrapper's content as it is.
RECURSIVE from_bedrock_shallow(_)
from_bedrock_shallow(value) ==
    CASE IsObject(value) ->
            IF /\ contains_key(value, "type")
               /\ contains_key(value, "text")
               /\ IsString(value.m["type"])
               /\ value.m["type"].s = "text"
            THEN value.m["text"]
            ELSE Obj([k \in DOMAIN value.m |-> from_bedrock_shallow(value.m[k])])
      [] IsArray(value) ->
            Arr([i \in DOMAIN value.a |-> from_bedrock_shallow(value.a[i])])
      [] OTHER -> value

\* from_bedrock_format that takes for a wrapper only an object with the two
\* keys "type" and "text" and no other.
RECURSIVE from_bedrock_exact(_)
from_bedrock_exact(value) ==
    CASE IsObject(value) ->
            IF /\ DOMAIN value.m = {"type", "text"}
               /\ IsString(value.m["type"])
               /\ value.m["type"].s = "text"
            THEN from_bedrock_exact(value.m["text"])
            ELSE Obj([k \in DOMAIN value.m |-> from_bedrock_exact(value.m[k])])
      [] IsArray(value) ->
            Arr([i \in DOMAIN value.a |-> from_bedrock_exact(value.a[i])])
      [] OTHER -> value

\* from_bedrock_format that returns an array as it is.
RECURSIVE from_bedrock_objects_only(_)
from_bedrock_objects_only(value) ==
    CASE IsObject(value) ->
            IF /\ contains_key(value, "type")
               /\ contains_key(value, "text")
               /\ IsString(value.m["type"])
               /\ value.m["type"].s = "text"
            THEN from_bedrock_objects_only(value.m["text"])
            ELSE Obj([k \in DOMAIN value.m |->
                        from_bedrock_objects_only(value.m[k])])
      [] OTHER -> value

RECURSIVE from_bedrock_format(_)
from_bedrock_format(value) ==
    CASE IsObject(value) ->
            IF /\ contains_key(value, "type")
               /\ contains_key(value, "text")
               /\ IsString(value.m["type"])
               /\ value.m["type"].s = "text"
            THEN from_bedrock_format(value.m["text"])
            ELSE Obj([k \in DOMAIN value.m |-> from_bedrock_format(value.m[k])])
      [] IsArray(value) ->
            Arr([i \in DOMAIN value.a |-> from_bedrock_format(value.a[i])])
      [] OTHER -> value

\* transform_params that matches on the output format.
transform_params_by_output(config, params) ==
    IF config.output_format = "Standard"
    THEN params
    ELSE from_bedrock_format(params)

transform_params(config, params) ==
    IF config.input_format = "Standard"
    THEN params
    ELSE from_bedrock_format(params)

\* transform_result with its two match arms exchanged.
transform_result_swapped(config, result) ==
    IF config.output_format = "Standard"
    THEN to_bedrock_format(result)
    ELSE result

transform_result(config, result) ==
    IF config.output_format = "Standard"
    THEN result
    ELSE to_bedrock_format(result)

(***************************************************************************)
(* crate::Error and Result                                                 *)
(***************************************************************************)
ErrorKinds == {"Io", "Json", "InvalidParam", "PermissionDenied", "Other"}

Ok(v) == [r |-> "Ok", v |-> v]
Err(kind) == [r |-> "Err", e |-> kind]
IsOk(res) == res.r = "Ok"

(***************************************************************************)
(* Response envelopes, in their serialized form: Response is untagged, so  *)
(* a SuccessResponse serializes to an object with the keys jsonrpc, result *)
(* and id, an ErrorResponse to one with jsonrpc, error and id; RpcError's  *)
(* data is None everywhere and is skipped when serializing.                *)
(***************************************************************************)
\* success without the request's id.
success_null_id(result, id) ==
    Obj([jsonrpc |-> Str("2.0"), result |-> result, id |-> Null])

success(result, id) ==
    Obj([jsonrpc |-> Str("2.0"), result |-> result, id |-> id])

RpcError(code, message) == Obj([code |-> Num(code), message |-> Str(message)])

\* An ErrorResponse that also carries a null result.
ErrorResponse_with_result(code, message, id) ==
    Obj([jsonrpc |-> Str("2.0"), result |-> Null,
         error |-> RpcError(code, message), id |-> id])

ErrorResponse(code, message, id) ==
    Obj([jsonrpc |-> Str("2.0"), error |-> RpcError(code, message), id |-> id])

\* ErrorCode with the codes of Io and PermissionDenied exchanged.
ErrorCode_swapped(kind) ==
    CASE kind = "Io" -> -32001
      [] kind = "Json" -> -32700
      [] kind = "InvalidParam" -> -32602
      [] kind = "PermissionDenied" -> -32000
      [] kind = "Other" -> -32603

ErrorCode(kind) ==
    CASE kind = "Io" -> -32000
      [] kind = "Json" -> -32700
      [] kind = "InvalidParam" -> -32602
      [] kind = "PermissionDenied" -> -32001
      [] kind = "Other" -> -32603

ErrorMessage(kind) ==
    CASE kind = "Io" -> "I/O error"
      [] kind = "Json" -> "Parse error"
      [] kind = "InvalidParam" -> "Invalid params"
      [] kind = "PermissionDenied" -> "Permission denied"
      [] kind = "Other" -> "error"

error(kind, id) == ErrorResponse(ErrorCode(kind), ErrorMessage(kind), id)

\* method_not_found with the code of invalid_request.
method_not_found_32600(id) == ErrorResponse(-32600, "Method not found", id)

method_not_found(id) == ErrorResponse(-32601, "Method not found", id)

\* invalid_request with the code of method_not_found.
invalid_request_32601(message, id) == ErrorResponse(-32601, message, id)

invalid_request(message, id) == ErrorResponse(-32600, message, id)

(***************************************************************************)
(* RawRequest: serde_json::from_str of the request text. The text is       *)
(* either not JSON at all (NotJson) or a JSON document. All four fields    *)
(* are required (none is an Option and none has a default); jsonrpc and    *)
(* method must be strings, params and id are any Value. A struct is also   *)
(* accepted in its sequence form. Unknown keys are ignored.                *)
(***************************************************************************)
NotJson == [t |-> "garbage"]

RawRequestFields == {"jsonrpc", "method", "params", "id"}

RawRequest(jsonrpc, method, params, id) ==
    [jsonrpc |-> jsonrpc, method |-> method, params |-> params, id |-> id]

\* from_str with params and id defaulting to null when absent.
from_str_lenient(request_str) ==
    IF /\ request_str # NotJson
       /\ IsObject(request_str)
       /\ {"jsonrpc", "method"} \subseteq DOMAIN request_str.m
       /\ IsString(request_str.m["jsonrpc"])
       /\ IsString(request_str.m["method"])
    THEN Ok(RawRequest(request_str.m["jsonrpc"].s, request_str.m["method"].s,
                       IF "params" \in DOMAIN request_str.m
                       THEN request_str.m["params"] ELSE Null,
                       IF "id" \in DOMAIN request_str.m
                       THEN request_str.m["id"] ELSE Null))
    ELSE Err("Json")

from_str(request_str) ==
    CASE request_str = NotJson -> Err("Json")
      [] IsObject(request_str) ->
            IF /\ RawRequestFields \subseteq DOMAIN request_str.m
               /\ IsString(request_str.m["jsonrpc"])
               /\ IsString(request_str.m["method"])
            THEN Ok(RawRequest(request_str.m["jsonrpc"].s,
                               request_str.m["method"].s,
                               request_str.m["params"],
                               request_str.m["id"]))
            ELSE Err("Json")
      [] IsArray(request_str) ->
            IF /\ Len(request_str.a) = 4
               /\ IsString(request_str.a[1])
               /\ IsString(request_str.a[2])
            THEN Ok(RawRequest(request_str.a[1].s, request_str.a[2].s,
                               request_str.a[3], request_str.a[4]))
            ELSE Err("Json")
      [] OTHER -> Err("Json")

(***************************************************************************)
(* Tools: what register's handler F: Fn(P) -> Future<Result<O>> can be.    *)
(*   "echo"            P = O = serde_json::Value, returns its params       *)
(*   "directory_make"  tools::directory_make::DirectoryMake                *)
(*   "custom"          any other closure with P = serde_json::Value: it    *)
(*                     may fail with any Error, and its O may fail to      *)
(*                     serialize                                           *)
(***************************************************************************)
Tools == {"echo", "directory_make", "custom"}

\* A result of type O whose Serialize implementation fails in to_value.
Unserializable == [t |-> "unserializable"]

\* tools::directory_make::Params and Output
Params(path, parents, exist_ok) ==
    [t |-> "Params", path |-> path, parents |-> parents, exist_ok |-> exist_ok]

Output(path, created) == [t |-> "Output", path |-> path, created |-> created]

\* A field with #[serde(default)]: false when absent.
DefaultBool(m, k) == IF k \in DOMAIN m THEN m[k].b ELSE FALSE

\* serde_json::from_value::<directory_make::Params>: from an object with a
\* string "path" (unknown keys are ignored), or from the sequence form.
ParamsFromValue(value) ==
    CASE IsObject(value) ->
            LET m == value.m
            IN  IF /\ "path" \in DOMAIN m
                   /\ IsString(m["path"])
                   /\ \A k \in {"parents", "exist_ok"} \cap DOMAIN m : m[k].t = "bool"
                THEN Ok(Params(m["path"].s, DefaultBool(m, "parents"),
                               DefaultBool(m, "exist_ok")))
                ELSE Err("Json")
      [] IsArray(value) ->
            LET a == value.a
            IN  IF /\ Len(a) \in 1..3
                   /\ IsString(a[1])
                   /\ \A i \in {2, 3} \cap DOMAIN a : a[i].t = "bool"
                THEN Ok(Params(a[1].s, DefaultBool(a, 2), DefaultBool(a, 3)))
                ELSE Err("Json")
      [] OTHER -> Err("Json")

\* A decode that falls back on default params instead of failing.
deserialize_lenient(tool, value) ==
    IF tool = "directory_make"
    THEN IF IsOk(ParamsFromValue(value)) THEN ParamsFromValue(value)
         ELSE Ok(Params("d", FALSE, FALSE))
    ELSE Ok(value)

\* transform::deserialize::<P>: serde_json::from_value, its error as Error::Json
deserialize(tool, value) ==
    IF tool = "directory_make" THEN ParamsFromValue(value) ELSE Ok(value)

\* DirectoryMake::execute against a file system the model does not hold:
\* every outcome the code can return for these params.
DirectoryMakeOutcomes(params) ==
    {Err("InvalidParam"), Err("PermissionDenied"), Err("Io"),
     Ok(Output(params.path, TRUE))}
    \cup (IF params.exist_ok THEN {Ok(Output(params.path, FALSE))} ELSE {})

\* The results a registered tool's execute can return for these typed params.
ExecuteOutcomes(tool, params) ==
    CASE tool = "echo" -> {Ok(params)}
      [] tool = "directory_make" -> DirectoryMakeOutcomes(params)
      [] tool = "custom" ->
            {Err(k) : k \in ErrorKinds} \cup {Ok(Null), Ok(Unserializable)}

\* transform::serialize: serde_json::to_value, its error as Error::Json
serialize(result) ==
    CASE result = Unserializable -> Err("Json")
      [] result.t = "Output" ->
            Ok(Obj([path |-> Str(result.path), created |-> Bool(result.created)]))
      [] OTHER -> Ok(result)

(***************************************************************************)
(* The inputs of the dispatcher model                                      *)
(***************************************************************************)
Versions == {"2.0", "1.0"}
MethodNames == {"echo", "directory_make", "nosuch"}
\* The (method, handler) pairs register is called with.
Registrations ==
    {<<"echo", "echo">>, <<"echo", "custom">>,
     <<"directory_make", "directory_make">>}
Ids == {Num(1), Str("a"), Null}

ParamValues ==
    { Obj([path |-> Str("d")]),
      Obj([path |-> TextWrapper(Str("d")), exist_ok |-> TextWrapper(Bool(TRUE))]),
      Num(1) }

EnvelopeDoc(jsonrpc, method, params, id) ==
    Obj([jsonrpc |-> Str(jsonrpc), method |-> Str(method),
         params |-> params, id |-> id])

Envelopes ==
    {EnvelopeDoc(v, m, p, i) : v \in Versions, m \in MethodNames,
                               p \in ParamValues, i \in Ids}

\* A JSON document that lacks one of the four fields.
Without(doc, field) == Obj([k \in DOMAIN doc.m \ {field} |-> doc.m[k]])

IncompleteDocs ==
    {Without(EnvelopeDoc("2.0", "echo", Num(1), Num(1)), f) : f \in RawRequestFields}

RequestTexts == Envelopes \cup IncompleteDocs \cup {NotJson}

Calls == 1..MaxCalls

(***************************************************************************)
(* Dispatcher                                                              *)
(***************************************************************************)
\* What register stores under a name: the closure over the handler and over
\* the clone of the dispatcher's transformer taken at registration.
\* A closure that builds FormatTransformer::default() for itself.
HandlerFn_default(tool, config) ==
    [tool |-> tool,
     transformer |-> [input_format |-> "Standard", output_format |-> "Standard"]]

HandlerFn(tool, config) == [tool |-> tool, transformer |-> config]

\* Dispatcher::with_transformer: no handlers, the given transformer.
Init ==
    /\ handlers = <<>>
    /\ transformer \in FormatConfig
    /\ pc = [c \in Calls |-> "idle"]
    /\ request = [c \in Calls |-> None]
    /\ typed = [c \in Calls |-> None]
    /\ response = [c \in Calls |-> None]
    /\ ret = [c \in Calls |-> "none"]
    /\ steps = [c \in Calls |-> <<>>]
    /\ invoked = [c \in Calls |-> <<>>]
    /\ executed = [c \in Calls |-> None]
    /\ registered = <<>>
    /\ val = None
    /\ op = "off"
    /\ out = None
    /\ fs = None
    /\ fscall = None
    /\ find = None
    /\ built = None

\* A map that keeps the value a key already has.
insert_keep_first(map, key, value) ==
    [k \in DOMAIN map \cup {key} |-> IF k \in DOMAIN map THEN map[k] ELSE value]

\* HashMap::insert
insert(map, key, value) == [k \in DOMAIN map \cup {key} |->
                                IF k = key THEN value ELSE map[k]]

\* Dispatcher::register(&mut self, method, handler). It borrows the dispatcher
\* mutably, so no dispatch (which borrows it for as long as it runs) is in
\* flight.
Register(method, tool) ==
    /\ \A c \in DOMAIN pc : pc[c] # "awaiting"
    /\ handlers' = insert(handlers, method, HandlerFn(tool, transformer))
    /\ registered' = (method :> tool) @@ registered
    /\ UNCHANGED <<transformer, pc, request, typed, response, ret, steps,
                   invoked, executed>>
    /\ UNCHANGED transformVars
    /\ UNCHANGED toolVars

\* What dispatch returns: Ok(the serialized envelope), or Err.
Reply(envelope) == [ret |-> "ok", response |-> envelope]
HardError == [ret |-> "err", response |-> None]

\* serde_json::to_string(&resp)?: a Response<serde_json::Value> always
\* serializes (a Value has string keys and finite numbers only), so the ?
\* never returns. The envelopes are built in their serialized form.
to_string(resp) == Reply(resp)

\* respond with the handler's error propagated by ? instead of matched.
respond_propagate(result, id) ==
    IF IsOk(result)
    THEN to_string(success(result.v, id))
    ELSE HardError

\* dispatch's match on what the handler returned
respond(result, id) ==
    IF IsOk(result)
    THEN to_string(success(result.v, id))
    ELSE to_string(error(result.e, id))

\* The handler closure up to the call of the tool: Ok(typed params), or the
\* error that ends the closure.
decode(handler, params) ==
    LET transformed_params == transform_params(handler.transformer, params)
    IN  deserialize(handler.tool, transformed_params)

\* The handler closure after the tool's execute returned `result`.
encode(handler, result) ==
    IF ~IsOk(result) THEN result
    ELSE LET json_result == serialize(result.v)
         IN  IF ~IsOk(json_result) THEN json_result
             ELSE Ok(transform_result(handler.transformer, json_result.v))

\* A closure that calls execute again when it failed.
EncodeSteps_retry(result) ==
    IF ~IsOk(result) THEN <<"execute", "execute">>
    ELSE IF ~IsOk(serialize(result.v)) THEN <<"execute", "serialize">>
    ELSE <<"execute", "serialize", "transform_result">>

\* The steps the closure ran after execute returned `result`.
EncodeSteps(result) ==
    IF ~IsOk(result) THEN <<"execute">>
    ELSE IF ~IsOk(serialize(result.v)) THEN <<"execute", "serialize">>
    ELSE <<"execute", "serialize", "transform_result">>

\* A return through one response buffer that all calls share.
Return_shared(c, reply, ran) ==
    /\ pc' = [pc EXCEPT ![c] = "done"]
    /\ ret' = [ret EXCEPT ![c] = reply.ret]
    /\ response' = [d \in DOMAIN response |-> reply.response]
    /\ steps' = [steps EXCEPT ![c] = steps[c] \o ran]

\* One call returns `reply` to its caller, having run the steps `ran`.
Return(c, reply, ran) ==
    /\ pc' = [pc EXCEPT ![c] = "done"]
    /\ ret' = [ret EXCEPT ![c] = reply.ret]
    /\ response' = [response EXCEPT ![c] = reply.response]
    /\ steps' = [steps EXCEPT ![c] = steps[c] \o ran]

\* Dispatcher::dispatch from its entry to its return or, when a handler is
\* called and gets as far as the tool, to the await of the tool's execute.
DispatchStart(c, request_str) ==
    /\ pc[c] = "idle"
    /\ request' = [request EXCEPT ![c] = request_str]
    /\ LET parsed == from_str(request_str)
           raw_request == parsed.v
       IN  IF ~IsOk(parsed)
           THEN /\ Return(c, HardError, <<"parse">>)
                /\ UNCHANGED <<typed, invoked>>
           ELSE IF raw_request.jsonrpc # "2.0"
           THEN /\ Return(c, to_string(invalid_request("Invalid JSONRPC version",
                                                       raw_request.id)),
                          <<"parse", "version">>)
                /\ UNCHANGED <<typed, invoked>>
           ELSE IF raw_request.method \notin DOMAIN handlers
           THEN /\ Return(c, to_string(method_not_found(raw_request.id)),
                          <<"parse", "version", "lookup">>)
                /\ UNCHANGED <<typed, invoked>>
           ELSE LET handler == handlers[raw_request.method]
                    typed_params == decode(handler, raw_request.params)
                    ran == <<"parse", "version", "lookup", "transform_params",
                             "deserialize">>
                IN  /\ invoked' = [invoked EXCEPT ![c] =
                            Append(invoked[c], [method |-> raw_request.method,
                                                handler |-> handler])]
                    /\ IF IsOk(typed_params)
                       THEN /\ typed' = [typed EXCEPT ![c] = typed_params.v]
                            /\ pc' = [pc EXCEPT ![c] = "awaiting"]
                            /\ steps' = [steps EXCEPT ![c] = steps[c] \o ran]
                            /\ UNCHANGED <<response, ret>>
                       ELSE /\ Return(c, respond(typed_params, raw_request.id), ran)
                            /\ UNCHANGED typed
    /\ UNCHANGED <<handlers, transformer, executed, registered>>
    /\ UNCHANGED transformVars
    /\ UNCHANGED toolVars

\* A dispatch that gives up on its tool and answers with a failure.
ToolReturn_timeout(c, result) ==
    /\ pc[c] = "awaiting"
    /\ ~IsOk(result)
    /\ Return(c, respond(Err("Other"), from_str(request[c]).v.id), <<>>)
    /\ UNCHANGED <<handlers, transformer, request, typed, invoked, registered,
                   executed>>
    /\ UNCHANGED transformVars
    /\ UNCHANGED toolVars

\* The rest of dispatch: the tool's execute completes with `result`, the
\* closure serializes and transforms it, and dispatch wraps what the closure
\* returned into an envelope.
ToolReturn(c, result) ==
    /\ pc[c] = "awaiting"
    /\ LET raw_request == from_str(request[c]).v
           handler == invoked[c][Len(invoked[c])].handler
       IN  /\ result \in ExecuteOutcomes(handler.tool, typed[c])
           /\ executed' = [executed EXCEPT ![c] = result]
           /\ Return(c, respond(encode(handler, result), raw_request.id),
                     EncodeSteps(result))
    /\ UNCHANGED <<handlers, transformer, request, typed, invoked, registered>>
    /\ UNCHANGED transformVars
    /\ UNCHANGED toolVars

\* Every result any tool can return, for ToolReturn to choose from.
Outcomes ==
    {Err(k) : k \in ErrorKinds} \cup {Ok(Null), Ok(Unserializable)}
    \cup {Ok(transform_params(config, p)) :
             config \in FormatConfig, p \in ParamValues}
    \cup {Ok(Output(p, created)) : p \in {"d"}, created \in BOOLEAN}

Next ==
    \/ \E r \in Registrations : Register(r[1], r[2])
    \/ \E c \in Calls, request_str \in RequestTexts : DispatchStart(c, request_str)
    \/ \E c \in Calls, result \in Outcomes : ToolReturn(c, result)

Spec == Init /\ [][Next]_vars

(***************************************************************************)
(* SpecTransform: the transformer's functions applied to JSON trees. A     *)
(* tree starts as a leaf and grows by nesting, up to MaxSize nodes; each    *)
(* function is then applied to it.                                         *)
(***************************************************************************)
Leaves == {Null, Bool(TRUE), Num(1), Str("text"), Str("a")}
Keys == {"type", "text", "x"}
Siblings == {Str("text"), Num(1)}

TransformInit ==
    /\ handlers = <<>>
    /\ transformer = None
    /\ pc = <<>>
    /\ request = <<>>
    /\ typed = <<>>
    /\ response = <<>>
    /\ ret = <<>>
    /\ steps = <<>>
    /\ invoked = <<>>
    /\ executed = <<>>
    /\ registered = <<>>
    /\ val \in Leaves
    /\ op = "input"
    /\ out = None
    /\ fs = None
    /\ fscall = None
    /\ find = None
    /\ built = None

\* val becomes the only element of an array, or the first of two.
NestArray(rest) ==
    /\ op = "input"
    /\ Size(val) + 1 + Len(rest) <= MaxSize
    /\ val' = Arr(<<val>> \o rest)
    /\ UNCHANGED <<op, out, transformer>>
    /\ UNCHANGED dispatcherVars
    /\ UNCHANGED toolVars

\* val becomes the member k of an object.
NestObject(k) ==
    /\ op = "input"
    /\ Size(val) + 1 <= MaxSize
    /\ val' = Obj([key \in {k} |-> val])
    /\ UNCHANGED <<op, out, transformer>>
    /\ UNCHANGED dispatcherVars
    /\ UNCHANGED toolVars

\* The object val gains a member.
AddMember(k, v) ==
    /\ op = "input"
    /\ IsObject(val)
    /\ k \notin DOMAIN val.m
    /\ Size(val) + 1 <= MaxSize
    /\ val' = Obj(insert(val.m, k, v))
    /\ UNCHANGED <<op, out, transformer>>
    /\ UNCHANGED dispatcherVars
    /\ UNCHANGED toolVars

Applied(name, result) ==
    /\ op = "input"
    /\ op' = name
    /\ out' = result
    /\ UNCHANGED val
    /\ UNCHANGED dispatcherVars
    /\ UNCHANGED toolVars

\* to_bedrock_format(val)
ToBedrock ==
    Applied("wrap", to_bedrock_format(val)) /\ UNCHANGED transformer

\* from_bedrock_format(val)
FromBedrock ==
    Applied("unwrap", from_bedrock_format(val)) /\ UNCHANGED transformer

\* from_bedrock_format(to_bedrock_format(val))
RoundTrip ==
    /\ Applied("roundtrip", from_bedrock_format(to_bedrock_format(val)))
    /\ UNCHANGED transformer

\* FormatTransformer::new(config).transform_params(val)
TransformParams(config) ==
    /\ Applied("transform_params", transform_params(config, val))
    /\ transformer' = config

\* FormatTransformer::new(config).transform_result(val)
TransformResult(config) ==
    /\ Applied("transform_result", transform_result(config, val))
    /\ transformer' = config

\* One dispatch of a tool that returns its params (Params = Output =
\* serde_json::Value) through a dispatcher built with `config`: the handler
\* closure and dispatch's match, on the params val and the id 1.
Echo(config) ==
    LET handler == HandlerFn("echo", config)
        typed_params == decode(handler, val)
    IN  /\ IsOk(typed_params)
        /\ \E result \in ExecuteOutcomes(handler.tool, typed_params.v) :
              Applied("echo", respond(encode(handler, result), Num(1)).response)
        /\ transformer' = config

TransformNext ==
    \/ \E rest \in {<<>>} \cup {<<l>> : l \in Siblings} : NestArray(rest)
    \/ \E k \in Keys : NestObject(k)
    \/ \E k \in Keys, v \in Siblings : AddMember(k, v)
    \/ ToBedrock
    \/ FromBedrock
    \/ RoundTrip
    \/ \E config \in FormatConfig : TransformParams(config)
    \/ \E config \in FormatConfig : TransformResult(config)
    \/ \E config \in FormatConfig : Echo(config)

SpecTransform == TransformInit /\ [][TransformNext]_vars

(***************************************************************************)
(* Concurrent dispatch calls on one dispatcher (SpecConcurrent)            *)
(***************************************************************************)
ConcurrentCalls == 1..MaxConcurrent

\* The requests the concurrent callers send.
ConcurrentRequests ==
    {EnvelopeDoc("2.0", m, p, i) :
        m \in MethodNames,
        p \in {Obj([path |-> Str("d")]),
               Obj([path |-> TextWrapper(Str("d")),
                    exist_ok |-> TextWrapper(Bool(TRUE))])},
        i \in {Num(1), Str("a")}}
    \cup {EnvelopeDoc("1.0", "echo", Num(1), Num(1)), NotJson}

\* The dispatcher after its registration phase: built with a transformer,
\* its tools registered, and shared by the callers.
ConcurrentInit ==
    /\ transformer \in FormatConfig
    /\ handlers = [m \in {"echo", "directory_make"} |->
                      HandlerFn(m, transformer)]
    /\ registered = [m \in {"echo", "directory_make"} |-> m]
    /\ pc = [c \in ConcurrentCalls |-> "idle"]
    /\ request = [c \in ConcurrentCalls |-> None]
    /\ typed = [c \in ConcurrentCalls |-> None]
    /\ response = [c \in ConcurrentCalls |-> None]
    /\ ret = [c \in ConcurrentCalls |-> "none"]
    /\ steps = [c \in ConcurrentCalls |-> <<>>]
    /\ invoked = [c \in ConcurrentCalls |-> <<>>]
    /\ executed = [c \in ConcurrentCalls |-> None]
    /\ val = None
    /\ op = "off"
    /\ out = None
    /\ fs = None
    /\ fscall = None
    /\ find = None
    /\ built = None

\* dispatch takes &self: any number of calls are in flight together, each
\* suspended at most at the await of its tool.
ConcurrentNext ==
    \/ \E c \in ConcurrentCalls, request_str \in ConcurrentRequests :
          DispatchStart(c, request_str)
    \/ \E c \in ConcurrentCalls, result \in Outcomes : ToolReturn(c, result)

SpecConcurrent == ConcurrentInit /\ [][ConcurrentNext]_vars

\* The dispatcher with tools whose execute eventually completes: the
\* runtime keeps polling a dispatch future that is awaited.
LiveRequests ==
    {r \in ConcurrentRequests : r = NotJson \/ r.m["id"] = Num(1)}

LiveNext ==
    \/ \E c \in ConcurrentCalls, request_str \in LiveRequests :
          DispatchStart(c, request_str)
    \/ \E c \in ConcurrentCalls, result \in Outcomes : ToolReturn(c, result)

SpecLive ==
    /\ ConcurrentInit
    /\ [][LiveNext]_vars
    /\ \A c \in ConcurrentCalls :
          WF_vars(\E result \in Outcomes : ToolReturn(c, result))

(***************************************************************************)
(* Registration under any name (SpecNames)                                 *)
(***************************************************************************)
\* register takes any &str as the method name, the empty one included.
NameRegistrations == {<<"", "echo">>, <<"echo", "echo">>}

NameRequests ==
    {EnvelopeDoc("2.0", m, p, i) :
        m \in {"", "echo", "nosuch"},
        p \in {Obj([path |-> Str("d")]), Num(1)},
        i \in {Num(1), Null}}

NamesNext ==
    \/ \E r \in NameRegistrations : Register(r[1], r[2])
    \/ \E c \in Calls, request_str \in NameRequests :
          DispatchStart(c, request_str)
    \/ \E c \in Calls, result \in Outcomes : ToolReturn(c, result)

SpecNames == Init /\ [][NamesNext]_vars

(***************************************************************************)
(* The file system the file tools work on (SpecFiles)                      *)
(***************************************************************************)
Names == {"a", "d"}
Contents == {"x", "y"}

\* A path is the sequence of its components; every path is relative to the
\* working directory, which exists and is a directory.
TopPaths == {<<n>> : n \in Names}
Paths == TopPaths \cup {<<n, m>> : n \in Names, m \in Names}
\* Where the children of a moved directory can come to lie.
DeepPaths == {<<n, m, l>> : n \in Names, m \in Names, l \in Names}
Universe == Paths \cup DeepPaths

Absent == [k |-> "absent"]
Dir == [k |-> "dir"]
File(c) == [k |-> "file", c |-> c]
Nodes == {Absent, Dir} \cup {File(c) : c \in Contents}

\* Path::parent: the path without its last component, empty for a path of
\* one component.
parent(path) == SubSeq(path, 1, Len(path) - 1)

\* Path::exists and Path::is_dir
exists(f, path) == path = <<>> \/ f[path] # Absent
is_dir(f, path) == path = <<>> \/ f[path] = Dir

IsPrefix(p, q) == Len(p) <= Len(q) /\ SubSeq(q, 1, Len(p)) = p

\* Every entry lies in a directory.
WellFormed(f) ==
    \A path \in DOMAIN f : f[path] # Absent => is_dir(f, parent(path))

\* The file systems a call can find.
FileSystems ==
    {f @@ [path \in DeepPaths |-> Absent] :
        f \in {g \in [Paths -> Nodes] : WellFormed(g)}}

\* The outcome of one file system operation: the std::io::Result it
\* returns and the file system it leaves.
IoOk(f) == [ok |-> TRUE, fs |-> f]
IoErr(kind, f) == [ok |-> FALSE, kind |-> kind, fs |-> f]
\* The failures any operation can meet although its paths are in order.
Refused(f) == {IoErr("PermissionDenied", f), IoErr("Other", f)}

\* fs::create_dir (mkdir)
create_dir(f, path) ==
    IF f[path] # Absent THEN {IoErr("AlreadyExists", f)}
    ELSE IF ~exists(f, parent(path)) THEN {IoErr("NotFound", f)}
    ELSE IF ~is_dir(f, parent(path)) THEN {IoErr("NotADirectory", f)}
    ELSE {IoOk([f EXCEPT ![path] = Dir])} \cup Refused(f)

\* A second mkdir of create_dir_all: its failure is ignored when the path is
\* a directory by then.
Retried(outcomes, path) ==
    {IF ~o.ok /\ is_dir(o.fs, path) THEN IoOk(o.fs) ELSE o : o \in outcomes}

\* fs::create_dir_all (std::fs::DirBuilder::create_dir_all)
RECURSIVE create_dir_all(_, _)
create_dir_all(f, path) ==
    IF path = <<>> THEN {IoOk(f)}
    ELSE UNION {
        IF o.ok THEN {o}
        ELSE IF o.kind = "NotFound"
        THEN UNION {IF ~up.ok THEN {up}
                    ELSE Retried(create_dir(up.fs, path), path) :
                        up \in create_dir_all(f, parent(path))}
        ELSE IF is_dir(f, path) THEN {IoOk(f)}
        ELSE {o} : o \in create_dir(f, path)}

\* fs::remove_file (unlink)
remove_file(f, path) ==
    IF f[path] = Absent THEN {IoErr("NotFound", f)}
    ELSE IF f[path] = Dir THEN {IoErr("IsADirectory", f)}
    ELSE {IoOk([f EXCEPT ![path] = Absent])} \cup Refused(f)

\* The file system with the tree at `from` moved to `to`.
Moved(f, from, to) ==
    [path \in DOMAIN f |->
        IF IsPrefix(to, path)
        THEN LET old == from \o SubSeq(path, Len(to) + 1, Len(path))
             IN  IF old \in DOMAIN f THEN f[old] ELSE Absent
        ELSE IF IsPrefix(from, path) THEN Absent
        ELSE f[path]]

\* Whether a directory has an entry.
HasEntry(f, path) ==
    \E q \in DOMAIN f : q # path /\ IsPrefix(path, q) /\ f[q] # Absent

\* fs::rename (rename(2))
rename(f, from, to) ==
    IF f[from] = Absent THEN {IoErr("NotFound", f)}
    ELSE IF ~exists(f, parent(to)) THEN {IoErr("NotFound", f)}
    ELSE IF ~is_dir(f, parent(to)) THEN {IoErr("NotADirectory", f)}
    ELSE IF from = to THEN {IoOk(f)}
    ELSE IF IsPrefix(from, to) THEN {IoErr("InvalidInput", f)}
    ELSE IF f[to] = Dir /\ f[from] # Dir THEN {IoErr("IsADirectory", f)}
    ELSE IF f[to] # Absent /\ f[to] # Dir /\ f[from] = Dir
    THEN {IoErr("NotADirectory", f)}
    ELSE IF f[to] = Dir /\ HasEntry(f, to)
    THEN {IoErr("DirectoryNotEmpty", f)}
    ELSE {IoOk(Moved(f, from, to))} \cup Refused(f)

\* What a tool's execute returns and the file system it leaves.
Left(result, f) == [result |-> result, fs |-> f]

\* file_move::Params and file_move::Output
MoveParams(source, destination, overwrite, create_dirs) ==
    [source |-> source, destination |-> destination,
     overwrite |-> overwrite, create_dirs |-> create_dirs]

MoveOutput(source, destination, overwritten) ==
    [t |-> "MoveOutput", source |-> source, destination |-> destination,
     overwritten |-> overwritten]

\* FileMove::execute from fs::rename on; a failed operation returns through ?.
FileMoveRename(f, params, dest_exists) ==
    {IF o.ok
     THEN Left(Ok(MoveOutput(params.source, params.destination, dest_exists)),
               o.fs)
     ELSE Left(Err("Io"), o.fs) :
        o \in rename(f, params.source, params.destination)}

\* FileMove::execute that moves onto an existing destination whatever
\* overwrite says.
FileMoveReplace_always(f, params) ==
    LET dest_exists == exists(f, params.destination)
    IN  IF dest_exists
        THEN UNION {IF o.ok THEN FileMoveRename(o.fs, params, dest_exists)
                    ELSE {Left(Err("Io"), o.fs)} :
                        o \in remove_file(f, params.destination)}
        ELSE FileMoveRename(f, params, dest_exists)

\* FileMove::execute from the check of the destination on.
FileMoveReplace(f, params) ==
    LET dest_exists == exists(f, params.destination)
    IN  IF dest_exists /\ ~params.overwrite
        THEN {Left(Err("InvalidParam"), f)}
        ELSE IF dest_exists /\ params.overwrite
        THEN UNION {IF o.ok THEN FileMoveRename(o.fs, params, dest_exists)
                    ELSE {Left(Err("Io"), o.fs)} :
                        o \in remove_file(f, params.destination)}
        ELSE FileMoveRename(f, params, dest_exists)

\* FileMove::execute: every Result it can return on the file system f, with
\* the file system it leaves.
FileMoveExecute(f, params) ==
    LET dir == parent(params.destination)
    IN  IF ~exists(f, params.source)
        THEN {Left(Err("InvalidParam"), f)}
        ELSE IF dir # <<>> /\ ~exists(f, dir)
        THEN IF params.create_dirs
             THEN UNION {IF o.ok THEN FileMoveReplace(o.fs, params)
                         ELSE {Left(Err("Io"), o.fs)} :
                             o \in create_dir_all(f, dir)}
             ELSE {Left(Err("InvalidParam"), f)}
        ELSE FileMoveReplace(f, params)

\* DirectoryMake::execute's match on the Result of the creation.
DirectoryMade(params, o) ==
    IF o.ok THEN Left(Ok(Output(params.path, TRUE)), o.fs)
    ELSE IF o.kind = "NotFound" THEN Left(Err("InvalidParam"), o.fs)
    ELSE IF o.kind = "PermissionDenied" THEN Left(Err("PermissionDenied"), o.fs)
    ELSE Left(Err("Io"), o.fs)

\* DirectoryMake::execute that reports an existing directory as created.
DirectoryMakeExecute_created(f, params) ==
    IF exists(f, params.path)
    THEN IF ~is_dir(f, params.path) THEN {Left(Err("InvalidParam"), f)}
         ELSE IF ~params.exist_ok THEN {Left(Err("InvalidParam"), f)}
         ELSE {Left(Ok(Output(params.path, TRUE)), f)}
    ELSE {DirectoryMade(params, o) :
            o \in IF params.parents THEN create_dir_all(f, params.path)
                                    ELSE create_dir(f, params.path)}

\* DirectoryMake::execute: every Result it can return on the file system f,
\* with the file system it leaves.
DirectoryMakeExecute(f, params) ==
    IF exists(f, params.path)
    THEN IF ~is_dir(f, params.path) THEN {Left(Err("InvalidParam"), f)}
         ELSE IF ~params.exist_ok THEN {Left(Err("InvalidParam"), f)}
         ELSE {Left(Ok(Output(params.path, FALSE)), f)}
    ELSE {DirectoryMade(params, o) :
            o \in IF params.parents THEN create_dir_all(f, params.path)
                                    ELSE create_dir(f, params.path)}

\* A process that holds no dispatcher state and is about to call a file tool
\* on some file system.
FilesInit ==
    /\ handlers = <<>>
    /\ transformer = None
    /\ pc = <<>>
    /\ request = <<>>
    /\ typed = <<>>
    /\ response = <<>>
    /\ ret = <<>>
    /\ steps = <<>>
    /\ invoked = <<>>
    /\ executed = <<>>
    /\ registered = <<>>
    /\ val = None
    /\ op = "off"
    /\ out = None
    /\ fs \in FileSystems
    /\ fscall = None
    /\ find = None
    /\ built = None

\* One call of a file tool's execute, from its entry to its return.
Executed(name, params, outcomes) ==
    /\ fscall = None
    /\ \E o \in outcomes :
          /\ fs' = o.fs
          /\ fscall' = [name |-> name, params |-> params, before |-> fs,
                        result |-> o.result]
    /\ UNCHANGED <<find, built>>
    /\ UNCHANGED dispatcherVars
    /\ UNCHANGED <<transformer, transformVars>>

\* FileMove.execute(params)
FileMoveCall(params) ==
    Executed("file_move", params, FileMoveExecute(fs, params))

\* DirectoryMake.execute(params)
DirectoryMakeCall(params) ==
    Executed("directory_make", params, DirectoryMakeExecute(fs, params))

FilesNext ==
    \/ \E path \in Paths, parents \in BOOLEAN, exist_ok \in BOOLEAN :
          DirectoryMakeCall(Params(path, parents, exist_ok))
    \/ \E source \in Paths, destination \in Paths,
          overwrite \in BOOLEAN, create_dirs \in BOOLEAN :
          FileMoveCall(MoveParams(source, destination, overwrite, create_dirs))

SpecFiles == FilesInit /\ [][FilesNext]_vars

(***************************************************************************)
(* FileFind::execute (SpecFind)                                            *)
(***************************************************************************)
\* Params::limit
Limits == 0..MaxWalk

\* What prepare_directory finds at params.directory.
DirectoryStates == {"missing", "file", "dir", "uncanonical"}

\* What the walker yields: the root directory itself, an entry that
\* should_include_entry_with_config accepts or rejects, or an error.
WalkKinds == {"root", "match", "other", "error"}
WalkItems == [kind : WalkKinds, path : 1..MaxWalk]

FindOutput(entries, total, limited) ==
    [t |-> "FindOutput", entries |-> entries, total |-> total,
     limited |-> limited]

\* The loop body with the limit compared by > instead of >=.
Visit_off_by_one(locals, item) ==
    IF item.kind # "match" THEN locals
    ELSE IF locals.limit > 0 /\ Len(locals.entries) > locals.limit
    THEN [locals EXCEPT !.total = @ + 1, !.limited = TRUE]
    ELSE [locals EXCEPT !.total = @ + 1,
                        !.entries = Append(@, item.path)]

\* One iteration of `for entry in walker` on the closure's locals.
Visit(locals, item) ==
    IF item.kind # "match" THEN locals
    ELSE IF locals.limit > 0 /\ Len(locals.entries) >= locals.limit
    THEN [locals EXCEPT !.total = @ + 1, !.limited = TRUE]
    ELSE [locals EXCEPT !.total = @ + 1,
                        !.entries = Append(@, item.path)]

\* entries.sort_by(|a, b| a.path.cmp(&b.path))
RECURSIVE SortByPath(_)
SortByPath(entries) ==
    IF entries = <<>> THEN <<>>
    ELSE LET least == CHOOSE i \in 1..Len(entries) :
                          \A j \in 1..Len(entries) : entries[i] <= entries[j]
         IN  <<entries[least]>> \o
             SortByPath(SubSeq(entries, 1, least - 1) \o
                        SubSeq(entries, least + 1, Len(entries)))

FindInit ==
    /\ handlers = <<>>
    /\ transformer = None
    /\ pc = <<>>
    /\ request = <<>>
    /\ typed = <<>>
    /\ response = <<>>
    /\ ret = <<>>
    /\ steps = <<>>
    /\ invoked = <<>>
    /\ executed = <<>>
    /\ registered = <<>>
    /\ val = None
    /\ op = "off"
    /\ out = None
    /\ fs = None
    /\ fscall = None
    /\ find = [pc |-> "entry"]
    /\ built = None

FindStep(next) ==
    /\ find' = next
    /\ UNCHANGED <<fs, fscall, built>>
    /\ UNCHANGED dispatcherVars
    /\ UNCHANGED <<transformer, transformVars>>

\* execute up to the start of the walk: prepare_directory and the locals of
\* the blocking closure.
FindStart(limit, directory) ==
    /\ find.pc = "entry"
    /\ FindStep(
          IF directory \in {"missing", "file"}
          THEN [pc |-> "done", limit |-> limit, walk |-> <<>>,
                result |-> Err("InvalidParam")]
          ELSE IF directory = "uncanonical"
          THEN [pc |-> "done", limit |-> limit, walk |-> <<>>,
                result |-> Err("Io")]
          ELSE [pc |-> "walking", limit |-> limit, walk |-> <<>>,
                entries |-> <<>>, total |-> 0, limited |-> FALSE])

\* The walker yields one more item and the loop body handles it.
FindVisit(item) ==
    /\ find.pc = "walking"
    /\ Len(find.walk) < MaxWalk
    /\ item.kind = "root" <=> find.walk = <<>>
    /\ \A i \in 1..Len(find.walk) : find.walk[i].path # item.path
    /\ FindStep([Visit(find, item) EXCEPT !.walk = Append(@, item)])

\* The walker is exhausted: the entries are mapped, sorted and returned.
FindReturn ==
    /\ find.pc = "walking"
    /\ FindStep([pc |-> "done", limit |-> find.limit, walk |-> find.walk,
                 result |-> Ok(FindOutput(SortByPath(find.entries),
                                          find.total, find.limited))])

FindNext ==
    \/ \E limit \in Limits, directory \in DirectoryStates :
          FindStart(limit, directory)
    \/ \E item \in WalkItems : FindVisit(item)
    \/ FindReturn

SpecFind == FindInit /\ [][FindNext]_vars

(***************************************************************************)
(* The factory functions of the crate (SpecFactory)                        *)
(***************************************************************************)
\* transform.rs: the four ready-made transformers, each the FormatConfig its
\* constructor chain ends in.
standard_transformer ==
    [input_format |-> "Standard", output_format |-> "Standard"]
bedrock_transformer ==
    [input_format |-> "Bedrock", output_format |-> "Bedrock"]
standard_to_bedrock_transformer ==
    [input_format |-> "Standard", output_format |-> "Bedrock"]
bedrock_to_standard_transformer ==
    [input_format |-> "Bedrock", output_format |-> "Standard"]

\* The names create_dispatcher_with_transformer registers, one
\* dispatcher.register call each.
ToolNames ==
    {"directory_list", "directory_make", "file_diff", "file_find",
     "file_grep", "file_move", "file_patch", "file_read", "file_write",
     "shell"}

\* The names create_dispatcher_with_transformer_and_registry registers, each
\* with the dispatcher and with the schema registry.
SchemaToolNames ==
    {"directory_list", "directory_make", "file_diff", "file_find",
     "file_grep", "file_move", "file_patch", "file_read", "file_write",
     "shell"}

\* Dispatcher::with_transformer(transformer), then one register per tool:
\* each tool is registered under its own name.
create_dispatcher_with_transformer(t) ==
    [transformer |-> t,
     handlers |-> [m \in ToolNames |-> HandlerFn(m, t)],
     schemas |-> {}]

create_dispatcher_with_transformer_and_registry(t) ==
    [transformer |-> t,
     handlers |-> [m \in SchemaToolNames |-> HandlerFn(m, t)],
     schemas |-> SchemaToolNames]

\* Returns the dispatcher of the (dispatcher, registry) pair.
create_dispatcher_with_schema_registry(t) ==
    create_dispatcher_with_transformer_and_registry(t)

create_default_dispatcher ==
    create_dispatcher_with_transformer(standard_transformer)
create_bedrock_dispatcher ==
    create_dispatcher_with_transformer(bedrock_transformer)
create_standard_to_bedrock_dispatcher ==
    create_dispatcher_with_transformer(standard_to_bedrock_transformer)
create_bedrock_to_standard_dispatcher ==
    create_dispatcher_with_transformer(bedrock_to_standard_transformer)
create_bedrock_dispatcher_with_schemas ==
    create_dispatcher_with_schema_registry(bedrock_to_standard_transformer)

\* The public factory functions without parameters, by name.
Factories ==
    [create_default_dispatcher |-> create_default_dispatcher,
     create_bedrock_dispatcher |-> create_bedrock_dispatcher,
     create_standard_to_bedrock_dispatcher |->
         create_standard_to_bedrock_dispatcher,
     create_bedrock_to_standard_dispatcher |->
         create_bedrock_to_standard_dispatcher,
     create_bedrock_dispatcher_with_schemas |->
         create_bedrock_dispatcher_with_schemas]

\* The requests sent to a factory-built dispatcher: a registered tool the
\* dispatcher model executes, and a name no factory registers.
FactoryRequests ==
    {EnvelopeDoc("2.0", m, p, i) :
        m \in {"directory_make", "nosuch"}, p \in ParamValues, i \in Ids}
    \cup {NotJson}

\* The state after one of the factory functions has returned.
FactoryInit ==
    /\ built \in DOMAIN Factories
    /\ handlers = Factories[built].handlers
    /\ transformer = Factories[built].transformer
    /\ registered = [m \in DOMAIN handlers |-> m]
    /\ pc = [c \in Calls |-> "idle"]
    /\ request = [c \in Calls |-> None]
    /\ typed = [c \in Calls |-> None]
    /\ response = [c \in Calls |-> None]
    /\ ret = [c \in Calls |-> "none"]
    /\ steps = [c \in Calls |-> <<>>]
    /\ invoked = [c \in Calls |-> <<>>]
    /\ executed = [c \in Calls |-> None]
    /\ val = None
    /\ op = "off"
    /\ out = None
    /\ fs = None
    /\ fscall = None
    /\ find = None

FactoryNext ==
    \/ \E c \in Calls, request_str \in FactoryRequests :
          DispatchStart(c, request_str)
    \/ \E c \in Calls, result \in Outcomes : ToolReturn(c, result)

SpecFactory == FactoryInit /\ [][FactoryNext]_vars

(***************************************************************************)
(* Properties of the dispatcher (Spec)                                     *)
(***************************************************************************)
Done(c) == pc[c] = "done"
Parses(c) == request[c] \in Envelopes
Field(c, name) == request[c].m[name]
HasKeys(v, keys) == IsObject(v) /\ DOMAIN v.m = keys

IsSuccess(resp) ==
    /\ HasKeys(resp, {"jsonrpc", "result", "id"})
    /\ resp.m["jsonrpc"] = Str("2.0")

IsFailure(resp) ==
    /\ HasKeys(resp, {"jsonrpc", "error", "id"})
    /\ resp.m["jsonrpc"] = Str("2.0")
    /\ HasKeys(resp.m["error"], {"code", "message"})
    /\ resp.m["error"].m["code"].t = "num"
    /\ resp.m["error"].m["code"].n \in Int
    /\ resp.m["error"].m["message"].t = "str"

FailureWith(c, code) ==
    /\ ret[c] = "ok"
    /\ IsFailure(response[c])
    /\ response[c].m["error"].m["code"] = Num(code)
    /\ response[c].m["id"] = Field(c, "id")

\* The handler a call invoked, and whether its params decoded.
InvokedHandler(c) == invoked[c][1].handler
DecodeFailed(c) ==
    /\ invoked[c] # <<>>
    /\ ~IsOk(decode(InvokedHandler(c), Field(c, "params")))

\* C1: a parsed request whose version is not "2.0" is answered with a
\* Failure of code -32600 that carries the request's id, whatever its method
\* and params; the method is not looked up and no handler is invoked.
C1_BadVersion ==
    \A c \in Calls :
        (Done(c) /\ Parses(c) /\ Field(c, "jsonrpc") # Str("2.0")) =>
            /\ FailureWith(c, -32600)
            /\ invoked[c] = <<>>
            /\ steps[c] = <<"parse", "version">>

\* C1 witness: a bad-version request naming a registered method was answered.
C1_Witness ==
    \E c \in Calls :
        /\ Done(c) /\ Parses(c)
        /\ Field(c, "jsonrpc") = Str("1.0")
        /\ Field(c, "method") = Str("directory_make")
        /\ Field(c, "params") = Num(1)
        /\ "directory_make" \in DOMAIN handlers
        /\ FailureWith(c, -32600)

\* C2: a dispatch of a request with version "2.0" whose method is no key of
\* the registry returns a Failure of code -32601 with the request's id and
\* invokes no handler.
C2_UnknownMethod ==
    [][\A c \in Calls :
        (/\ pc[c] = "idle" /\ pc'[c] # "idle"
         /\ request'[c] \in Envelopes
         /\ request'[c].m["jsonrpc"] = Str("2.0")
         /\ request'[c].m["method"].s \notin DOMAIN handlers)
        => (/\ pc'[c] = "done"
            /\ ret'[c] = "ok"
            /\ IsFailure(response'[c])
            /\ response'[c].m["error"].m["code"] = Num(-32601)
            /\ response'[c].m["id"] = request'[c].m["id"]
            /\ invoked'[c] = <<>>)]_vars

\* C2 witness: with a handler registered, a request for another method was
\* answered with -32601.
C2_Witness ==
    \E c \in Calls :
        /\ Done(c) /\ Parses(c)
        /\ Field(c, "jsonrpc") = Str("2.0")
        /\ Field(c, "method") = Str("nosuch")
        /\ handlers # <<>>
        /\ FailureWith(c, -32601)
        /\ invoked[c] = <<>>

\* C3: when the params of a request for a registered method do not decode
\* into the tool's parameter type, the response is a Failure of code -32602
\* with the request's id.
C3_DecodeFailureIsInvalidParams ==
    \A c \in Calls : (Done(c) /\ DecodeFailed(c)) => FailureWith(c, -32602)

\* C6: a failed execute gives -32000 for an I/O failure, -32001 for a
\* permission failure and -32603 for every other failure.
C6_OtherFailuresAre32603 ==
    \A c \in Calls :
        (Done(c) /\ executed[c] # None /\ ~IsOk(executed[c])) =>
            FailureWith(c, CASE executed[c].e = "Io" -> -32000
                             [] executed[c].e = "PermissionDenied" -> -32001
                             [] OTHER -> -32603)

\* C6 as amended: a failed execute gives -32000 for an I/O failure, -32001
\* for a permission failure, -32602 for an invalid-parameter failure, -32700
\* for a JSON failure and -32603 for a general (Other) failure.
C6_CodeByKind ==
    \A c \in Calls :
        (Done(c) /\ executed[c] # None /\ ~IsOk(executed[c])) =>
            /\ executed[c].e = "Io" => FailureWith(c, -32000)
            /\ executed[c].e = "PermissionDenied" => FailureWith(c, -32001)
            /\ executed[c].e = "Other" => FailureWith(c, -32603)
            /\ executed[c].e = "InvalidParam" => FailureWith(c, -32602)
            /\ executed[c].e = "Json" => FailureWith(c, -32700)

\* C6 witness: directory_make failed with an invalid-parameter error and the
\* response carries -32602.
C6_Witness ==
    \E c \in Calls :
        /\ Done(c) /\ Parses(c)
        /\ Field(c, "method") = Str("directory_make")
        /\ invoked[c] # <<>>
        /\ executed[c] = Err("InvalidParam")
        /\ FailureWith(c, -32602)

\* The request did not end in a successful, serializable tool result.
FailurePath(c) ==
    \/ Field(c, "jsonrpc") # Str("2.0")
    \/ invoked[c] = <<>>
    \/ executed[c] = None
    \/ ~IsOk(executed[c])
    \/ executed[c].v = Unserializable

\* C7: for a request that parses, dispatch returns Ok with an envelope that
\* carries the request's id, and on each failure path (bad version, unknown
\* method, decode failure, tool failure, result encode failure) that
\* envelope is a Failure.
C7_AlwaysAnEnvelope ==
    \A c \in Calls :
        (Done(c) /\ Parses(c)) =>
            /\ ret[c] = "ok"
            /\ IsSuccess(response[c]) \/ IsFailure(response[c])
            /\ response[c].m["id"] = Field(c, "id")
            /\ FailurePath(c) => IsFailure(response[c])

\* C7 witness: a tool result that failed to serialize was answered with a
\* Failure carrying the id.
C7_Witness ==
    \E c \in Calls :
        /\ Done(c) /\ Parses(c)
        /\ executed[c] = Ok(Unserializable)
        /\ ret[c] = "ok"
        /\ IsFailure(response[c])
        /\ response[c].m["id"] = Field(c, "id")

\* C8: when the request text does not parse into an envelope, dispatch
\* returns an error, produces no envelope and invokes no handler.
C8_ParseFailureIsHard ==
    \A c \in Calls :
        (Done(c) /\ ~Parses(c)) =>
            /\ ret[c] = "err"
            /\ response[c] = None
            /\ invoked[c] = <<>>
            /\ executed[c] = None
            /\ steps[c] = <<"parse">>

\* C8 witness: a text that is not JSON was dispatched with a handler
\* registered.
C8_Witness ==
    \E c \in Calls :
        /\ Done(c)
        /\ request[c] = NotJson
        /\ handlers # <<>>
        /\ ret[c] = "err"

\* C9: every envelope dispatch returns carries the request's id unchanged.
C9_IdEchoed ==
    \A c \in Calls :
        (Done(c) /\ ret[c] = "ok") =>
            /\ IsObject(response[c])
            /\ "id" \in DOMAIN response[c].m
            /\ response[c].m["id"] = Field(c, "id")

\* C9 witness: a Success whose id is the request's string id.
C9_Witness ==
    \E c \in Calls :
        /\ Done(c) /\ Parses(c)
        /\ Field(c, "id") = Str("a")
        /\ IsSuccess(response[c])
        /\ response[c].m["id"] = Str("a")

\* C10: a dispatch of a parsed request has no envelope until it returns and
\* then exactly one, which is either a Success (result, no error) or a
\* Failure (error with integer code and string message, no result), with
\* version "2.0".
C10_OneVariant ==
    \A c \in Calls :
        /\ ~Done(c) => response[c] = None
        /\ (Done(c) /\ Parses(c)) =>
            /\ ret[c] = "ok"
            /\ IsSuccess(response[c]) # IsFailure(response[c])
            /\ response[c].m["jsonrpc"] = Str("2.0")
            /\ ~({"result", "error"} \subseteq DOMAIN response[c].m)

\* C10 witness: a tool failure was answered with a Failure that has no result.
C10_Witness ==
    \E c \in Calls :
        /\ Done(c) /\ Parses(c)
        /\ executed[c] # None /\ ~IsOk(executed[c])
        /\ IsFailure(response[c])
        /\ "result" \notin DOMAIN response[c].m

(***************************************************************************)
(* Properties of the transformer (SpecTransform)                           *)
(***************************************************************************)
\* An object that holds both a "type" and a "text" key.
WrapperShaped(v) ==
    IsObject(v) /\ contains_key(v, "type") /\ contains_key(v, "text")

\* C4: to_bedrock_format (and transform_result under Bedrock output) returns
\* an object that holds both "type" and "text" unchanged.
C4_WrapKeepsWrapperShaped ==
    (/\ WrapperShaped(val)
     /\ \/ op = "wrap"
        \/ op = "transform_result" /\ transformer.output_format = "Bedrock")
    => out = val

Prologue ==
    <<"parse", "version", "lookup", "transform_params", "deserialize">>

Occurrences(seq, x) == Len(SelectSeq(seq, LAMBDA s : s = x))

\* The call c enters dispatch in this step with a request of the expected
\* version, a registered method and params that decode.
C11_Accepted(c) ==
    /\ pc[c] = "idle" /\ pc'[c] # "idle"
    /\ request'[c] \in Envelopes
    /\ request'[c].m["jsonrpc"] = Str("2.0")
    /\ request'[c].m["method"].s \in DOMAIN handlers
    /\ LET handler == handlers[request'[c].m["method"].s]
       IN  IsOk(deserialize(handler.tool,
                   transform_params(handler.transformer,
                                    request'[c].m["params"])))

\* C11: a request with the expected version, a registered method m and
\* decodable params invokes exactly m's handler, which runs, once each and in
\* this order, the decode-direction transform, the typed decode, the tool's
\* execute, the result serialization and the encode-direction transform;
\* execute runs exactly once whether it succeeds or fails, and is never
\* retried.
C11_HandlerStepsOnce ==
    [][\A c \in DOMAIN pc :
        /\ C11_Accepted(c) =>
              LET m == request'[c].m["method"].s
                  params == request'[c].m["params"]
              IN  /\ pc'[c] = "awaiting"
                  /\ invoked'[c] = <<[method |-> m, handler |-> handlers[m]]>>
                  /\ steps'[c] = Prologue
                  /\ typed'[c] = deserialize(handlers[m].tool,
                          transform_params(handlers[m].transformer, params)).v
                  /\ executed'[c] = None
        /\ (pc[c] = "awaiting" /\ pc'[c] # "awaiting") =>
              LET handler == invoked[c][1].handler
                  result == executed'[c]
              IN  /\ pc'[c] = "done"
                  /\ invoked'[c] = invoked[c]
                  /\ result \in ExecuteOutcomes(handler.tool, typed[c])
                  /\ Occurrences(steps'[c], "execute") = 1
                  /\ IF ~IsOk(result)
                     THEN steps'[c] = Prologue \o <<"execute">>
                     ELSE IF ~IsOk(serialize(result.v))
                     THEN steps'[c] = Prologue \o <<"execute", "serialize">>
                     ELSE /\ steps'[c] = Prologue \o
                               <<"execute", "serialize", "transform_result">>
                          /\ response'[c].m["result"] =
                               transform_result(handler.transformer,
                                                serialize(result.v).v)
        /\ pc[c] = "done" =>
              /\ pc'[c] = "done"
              /\ steps'[c] = steps[c]
              /\ invoked'[c] = invoked[c]
              /\ executed'[c] = executed[c]
      ]_vars

\* C11 witness: a call whose tool failed once and was not called again.
C11_Witness ==
    \E c \in DOMAIN pc :
        /\ Done(c)
        /\ executed[c] # None
        /\ ~IsOk(executed[c])
        /\ steps[c] = Prologue \o <<"execute">>

(***************************************************************************)
(* The four format configurations (SpecTransform)                          *)
(***************************************************************************)
Config(input, output) == [input_format |-> input, output_format |-> output]

\* C12: under the Standard/Standard configuration transform_params and
\* transform_result return their input unchanged, and a tool that returns
\* its params yields a Success envelope whose result equals the request
\* params, for every params value.
C12_StandardIsNoOp ==
    transformer = Config("Standard", "Standard") =>
        /\ op \in {"transform_params", "transform_result"} => out = val
        /\ op = "echo" => out = success(val, Num(1))

\* C12 witness: a wrapper inside an array comes back as it was sent.
C12_Witness ==
    /\ transformer = Config("Standard", "Standard")
    /\ op = "echo"
    /\ val = Arr(<<TextWrapper(Num(1))>>)
    /\ out = success(val, Num(1))

\* w is v with every scalar leaf inside {"type":"text","text":leaf} and every
\* object and array kept as a container of the same keys or length.
RECURSIVE LeavesWrapped(_, _)
LeavesWrapped(v, w) ==
    CASE IsObject(v) ->
            /\ IsObject(w)
            /\ DOMAIN w.m = DOMAIN v.m
            /\ \A k \in DOMAIN v.m : LeavesWrapped(v.m[k], w.m[k])
      [] IsArray(v) ->
            /\ IsArray(w)
            /\ Len(w.a) = Len(v.a)
            /\ \A i \in 1..Len(v.a) : LeavesWrapped(v.a[i], w.a[i])
      [] OTHER -> w = TextWrapper(v)

IsWrapper(v) ==
    /\ IsObject(v)
    /\ contains_key(v, "type") /\ contains_key(v, "text")
    /\ v.m["type"] = Str("text")

\* w is v with every wrapper replaced by its content, at every depth.
RECURSIVE WrappersCollapsed(_, _)
WrappersCollapsed(v, w) ==
    CASE IsWrapper(v) -> WrappersCollapsed(v.m["text"], w)
      [] IsObject(v) ->
            /\ IsObject(w)
            /\ DOMAIN w.m = DOMAIN v.m
            /\ \A k \in DOMAIN v.m : WrappersCollapsed(v.m[k], w.m[k])
      [] IsArray(v) ->
            /\ IsArray(w)
            /\ Len(w.a) = Len(v.a)
            /\ \A i \in 1..Len(v.a) : WrappersCollapsed(v.a[i], w.a[i])
      [] OTHER -> w = v

\* C14: under the Bedrock/Standard configuration the tool receives the
\* request params with every wrapper {"type":"text","text":inner} collapsed
\* to inner at every depth, a wrapper around the whole params included, and
\* the result is returned without wrapping.
C14_WrappedToPlain ==
    transformer = Config("Bedrock", "Standard") =>
        /\ op = "transform_params" => WrappersCollapsed(val, out)
        /\ op = "transform_result" => out = val
        /\ op = "echo" =>
              /\ IsSuccess(out)
              /\ out.m["id"] = Num(1)
              /\ WrappersCollapsed(val, out.m["result"])

\* C14 witness: echoing {"x": {"type":"text","text":1}} gives {"x": 1}.
C14_Witness ==
    /\ transformer = Config("Bedrock", "Standard")
    /\ op = "echo"
    /\ val = Obj([x |-> TextWrapper(Num(1))])
    /\ out = success(Obj([x |-> Num(1)]), Num(1))

\* v is or holds, at some depth, an object from_bedrock_format collapses.
RECURSIVE ContainsWrapper(_)
ContainsWrapper(v) ==
    CASE IsWrapper(v) -> TRUE
      [] IsObject(v) -> \E k \in DOMAIN v.m : ContainsWrapper(v.m[k])
      [] IsArray(v) -> \E i \in 1..Len(v.a) : ContainsWrapper(v.a[i])
      [] OTHER -> FALSE

\* C15: from_bedrock_format collapses {"type":"text","text":inner} to the
\* unwrapped inner, so nested wrappers collapse completely; every other
\* object or array is rebuilt member-wise with the same keys or length;
\* every scalar leaf is returned unchanged. It is therefore the identity on
\* a value that holds no wrapper, and plain params sent to a dispatcher
\* with Bedrock input reach the tool as they are.
C15_Unwrap ==
    /\ op = "unwrap" =>
          /\ WrappersCollapsed(val, out)
          /\ \A l \in Leaves : val = TextWrapper(TextWrapper(l)) => out = l
          /\ val \in Leaves => out = val
          /\ ~ContainsWrapper(val) => out = val
    /\ (op = "transform_params" /\ transformer.input_format = "Bedrock"
                                /\ ~ContainsWrapper(val)) => out = val
    /\ (op = "echo" /\ transformer.input_format = "Bedrock"
                    /\ ~ContainsWrapper(val)) =>
          IF transformer.output_format = "Standard"
          THEN out = success(val, Num(1))
          ELSE IsSuccess(out) /\ LeavesWrapped(val, out.m["result"])

\* C15 witness: a wrapper inside a wrapper collapses to the leaf.
C15_Witness ==
    /\ op = "unwrap"
    /\ val = TextWrapper(TextWrapper(Num(1)))
    /\ out = Num(1)

\* v is a JSON value: what a serde_json::Value can hold, and not an error.
RECURSIVE IsJson(_)
IsJson(v) ==
    /\ "t" \in DOMAIN v
    /\ CASE v.t = "null" -> DOMAIN v = {"t"}
          [] v.t = "bool" -> v.b \in BOOLEAN
          [] v.t = "num" -> v.n \in Int
          [] v.t = "str" -> v.s \in STRING
          [] v.t = "arr" -> \A i \in 1..Len(v.a) : IsJson(v.a[i])
          [] v.t = "obj" -> \A k \in DOMAIN v.m : IsJson(v.m[k])
          [] OTHER -> FALSE

\* C16: to_bedrock_format, from_bedrock_format, transform_params and
\* transform_result return a JSON value, never an error, for every JSON
\* value and every configuration, and to_bedrock_format treats null, number,
\* boolean and string leaves alike: each becomes {"type":"text","text":leaf}.
C16_TotalAndUniform ==
    /\ op \in {"wrap", "unwrap", "roundtrip", "transform_params",
                "transform_result"} => IsJson(out)
    /\ (op = "wrap" /\ ~IsObject(val) /\ ~IsArray(val)) =>
          out = TextWrapper(val)
    /\ (op = "transform_result" /\ transformer.output_format = "Bedrock"
                                /\ ~IsObject(val) /\ ~IsArray(val)) =>
          out = TextWrapper(val)

\* C16 witness: null is wrapped as every other leaf is.
C16_Witness ==
    /\ op = "wrap"
    /\ val = Null
    /\ out = TextWrapper(Null)

(***************************************************************************)
(* The registry and the configuration (Spec)                               *)
(***************************************************************************)
\* C17: after any sequence of register calls the registry holds at most one
\* entry per name; registering a name again raises no error and replaces the
\* entry, so that a later dispatch of that name invokes only the handler
\* registered last; the entries of other names are unchanged.
C17_LatestRegistrationWins ==
    [][/\ DOMAIN handlers' = DOMAIN registered'
       /\ \A m \in DOMAIN handlers' : handlers'[m].tool = registered'[m]
       /\ registered' # registered =>
             \E m \in DOMAIN registered' :
                 /\ DOMAIN handlers' = DOMAIN handlers \cup {m}
                 /\ \A k \in DOMAIN handlers \ {m} : handlers'[k] = handlers[k]
       /\ \A c \in DOMAIN pc :
             (pc[c] = "idle" /\ invoked'[c] # <<>>) =>
                 /\ Len(invoked'[c]) = 1
                 /\ invoked'[c][1].handler.tool =
                        registered[invoked'[c][1].method]
      ]_vars

\* C17 witness: "echo" was dispatched to one tool and has since been
\* registered again with another, beside an entry of another name.
C17_Witness ==
    \E c \in DOMAIN pc :
        /\ Done(c)
        /\ invoked[c] # <<>>
        /\ invoked[c][1].method = "echo"
        /\ invoked[c][1].handler.tool = "echo"
        /\ "directory_make" \in DOMAIN handlers
        /\ handlers["echo"].tool = "custom"

\* C19: the format configuration chosen at construction never changes across
\* register and dispatch calls, and every handler, whenever it was
\* registered, transforms with that same configuration.
C19_ConfigurationFixed ==
    [][/\ transformer' = transformer
       /\ \A m \in DOMAIN handlers' : handlers'[m].transformer = transformer
       /\ \A c \in DOMAIN pc : \A i \in 1..Len(invoked'[c]) :
             invoked'[c][i].handler.transformer = transformer
      ]_vars

\* C19 witness: under Bedrock/Standard one handler was called and another was
\* registered afterwards; both hold the dispatcher's configuration.
C19_Witness ==
    \E c \in DOMAIN pc :
        /\ transformer = Config("Bedrock", "Standard")
        /\ Done(c)
        /\ invoked[c] # <<>>
        /\ invoked[c][1].handler = HandlerFn("echo", transformer)
        /\ "echo" \in DOMAIN handlers
        /\ handlers["echo"] = HandlerFn("custom", transformer)

\* C20: the decode and the encode direction are independent: for a fixed
\* request and tool, the typed params the tool receives (or the failure to
\* decode them) depend only on the input format, and the response built from
\* a given tool result depends only on the output format, under all four
\* configurations.
C20_DirectionsIndependent ==
    \A c \in DOMAIN pc :
        invoked[c] # <<>> =>
            LET tool == invoked[c][1].handler.tool
                With(input, output) == HandlerFn(tool, Config(input, output))
            IN  /\ typed[c] # None =>
                      \A o \in OutputFormat :
                          decode(With(transformer.input_format, o),
                                 Field(c, "params")) = Ok(typed[c])
                /\ (Done(c) /\ typed[c] = None) =>
                      \A o \in OutputFormat :
                          ~IsOk(decode(With(transformer.input_format, o),
                                       Field(c, "params")))
                /\ (Done(c) /\ executed[c] # None) =>
                      \A i \in InputFormat :
                          respond(encode(With(i, transformer.output_format),
                                         executed[c]),
                                  Field(c, "id")).response = response[c]

\* C20 witness: under Bedrock/Standard directory_make received the collapsed
\* params and its result was returned unwrapped.
C20_Witness ==
    \E c \in DOMAIN pc :
        /\ Done(c)
        /\ transformer = Config("Bedrock", "Standard")
        /\ invoked[c] # <<>>
        /\ invoked[c][1].handler.tool = "directory_make"
        /\ ContainsWrapper(Field(c, "params"))
        /\ typed[c] # None
        /\ typed[c].exist_ok
        /\ IsSuccess(response[c])
        /\ response[c].m["result"].m["path"] = Str("d")

(***************************************************************************)
(* Concurrent calls (SpecConcurrent)                                       *)
(***************************************************************************)
\* What dispatch returns for request_str when it runs alone on a dispatcher
\* with this registry and the tool returns `result`.
Alone(registry, request_str, result) ==
    LET parsed == from_str(request_str)
        raw_request == parsed.v
    IN  IF ~IsOk(parsed) THEN HardError
        ELSE IF raw_request.jsonrpc # "2.0"
        THEN Reply(invalid_request("Invalid JSONRPC version", raw_request.id))
        ELSE IF raw_request.method \notin DOMAIN registry
        THEN Reply(method_not_found(raw_request.id))
        ELSE LET handler == registry[raw_request.method]
                 typed_params == decode(handler, raw_request.params)
             IN  IF ~IsOk(typed_params)
                 THEN respond(typed_params, raw_request.id)
                 ELSE respond(encode(handler, result), raw_request.id)

\* Everything the model holds of the call c.
CallState(c) ==
    <<pc[c], request[c], typed[c], response[c], ret[c], steps[c], invoked[c],
      executed[c]>>

\* C18: for any interleaving of concurrent dispatch calls on one dispatcher
\* after the registration phase, each call's response equals the response it
\* would produce alone (for the result its tool returned), each response
\* carries the id of its own request, and no dispatch changes the registry
\* or the format configuration.
C18_CallsIndependent ==
    [][/\ handlers' = handlers
       /\ transformer' = transformer
       /\ \A c \in DOMAIN pc :
             /\ pc'[c] = "done" =>
                   /\ [ret |-> ret'[c], response |-> response'[c]] =
                          Alone(handlers, request'[c], executed'[c])
                   /\ ret'[c] = "ok" =>
                          response'[c].m["id"] = request'[c].m["id"]
             /\ pc'[c] # pc[c] =>
                   \A d \in DOMAIN pc \ {c} : CallState(d)' = CallState(d)
      ]_vars

\* C18 witness: one call has returned, with its own id, while another one
\* is still waiting for its tool.
C18_Witness ==
    \E c, d \in DOMAIN pc :
        /\ c # d
        /\ pc[c] = "done" /\ pc[d] = "awaiting"
        /\ executed[c] # None
        /\ request[c].m["id"] = Str("a")
        /\ request[d].m["id"] = Num(1)
        /\ response[c].m["id"] = Str("a")

(***************************************************************************)
(* The file tools (SpecFiles)                                              *)
(***************************************************************************)
\* The tree below `to` in g is the tree below `from` in f.
SameTree(f, from, g, to) ==
    \A path \in DOMAIN g :
        IsPrefix(to, path) =>
            LET old == from \o SubSeq(path, Len(to) + 1, Len(path))
            IN  g[path] = IF old \in DOMAIN f THEN f[old] ELSE Absent

\* C21: file_move returns an error and leaves the source and the destination
\* unchanged when the source does not exist, when the destination's parent
\* directory does not exist and create_dirs is false, or when the
\* destination exists and overwrite is false; when it succeeds the source no
\* longer exists, the destination holds the source's content, and
\* overwritten is true exactly when the destination existed before the move.
C21_FileMove ==
    (fscall # None /\ fscall.name = "file_move") =>
        LET before == fscall.before
            source == fscall.params.source
            destination == fscall.params.destination
            dir == parent(destination)
        IN  /\ (\/ before[source] = Absent
                \/ /\ dir # <<>> /\ before[dir] = Absent
                   /\ ~fscall.params.create_dirs
                \/ /\ before[destination] # Absent
                   /\ ~fscall.params.overwrite) =>
                  /\ ~IsOk(fscall.result)
                  /\ fs[source] = before[source]
                  /\ fs[destination] = before[destination]
                  /\ fs = before
            /\ IsOk(fscall.result) =>
                  /\ fs[source] = Absent
                  /\ fs[destination] = before[source]
                  /\ SameTree(before, source, fs, destination)
                  /\ fscall.result.v.overwritten
                        = (before[destination] # Absent)

\* C21 witness: a file was moved onto a file with other content.
C21_Witness ==
    /\ fscall # None
    /\ fscall.name = "file_move"
    /\ IsOk(fscall.result)
    /\ fscall.result.v.overwritten
    /\ fscall.before[fscall.params.source] = File("x")
    /\ fscall.before[fscall.params.destination] = File("y")
    /\ fs[fscall.params.destination] = File("x")
    /\ fs[fscall.params.source] = Absent

(***************************************************************************)
(* file_find (SpecFind)                                                    *)
(***************************************************************************)
\* The paths of the matching entries the walk came across.
Matching(walk) ==
    {walk[i].path : i \in {j \in 1..Len(walk) : walk[j].kind = "match"}}

Min(a, b) == IF a <= b THEN a ELSE b

\* C22: file_find with limit > 0 returns min(total, limit) entries, where
\* total counts every matching entry found, and limited is true exactly when
\* total > limit; with limit = 0 all matches are returned and limited is
\* false.
C22_FindLimit ==
    (find # None /\ find.pc = "done" /\ IsOk(find.result)) =>
        LET output == find.result.v
            returned == {output.entries[i] : i \in 1..Len(output.entries)}
        IN  /\ output.total = Cardinality(Matching(find.walk))
            /\ returned \subseteq Matching(find.walk)
            /\ Cardinality(returned) = Len(output.entries)
            /\ IF find.limit > 0
               THEN /\ Len(output.entries) <= find.limit
                    /\ Len(output.entries) = Min(output.total, find.limit)
                    /\ output.limited <=> output.total > find.limit
               ELSE /\ returned = Matching(find.walk)
                    /\ ~output.limited

\* C22 witness: more entries matched than the limit allows.
C22_Witness ==
    /\ find # None
    /\ find.pc = "done"
    /\ IsOk(find.result)
    /\ find.limit > 0
    /\ find.result.v.total > find.limit
    /\ find.result.v.limited
    /\ Len(find.result.v.entries) = find.limit

\* C23: directory_make on a path that exists as a directory returns an error
\* when exist_ok is false and success with created = false, changing
\* nothing, when exist_ok is true; on a path that does not exist it returns
\* created = true on success, and with parents = false it fails without
\* creating anything when the parent directory is missing; created is true
\* exactly when the call itself created the directory.
C23_DirectoryMake ==
    (fscall # None /\ fscall.name = "directory_make") =>
        LET before == fscall.before
            path == fscall.params.path
            result == fscall.result
        IN  /\ (before[path] = Dir /\ ~fscall.params.exist_ok) =>
                  ~IsOk(result) /\ fs = before
            /\ (before[path] = Dir /\ fscall.params.exist_ok) =>
                  result = Ok(Output(path, FALSE)) /\ fs = before
            /\ (before[path] = Absent /\ IsOk(result)) =>
                  result.v.created /\ fs[path] = Dir
            /\ (/\ ~fscall.params.parents
                /\ parent(path) # <<>>
                /\ before[parent(path)] = Absent) =>
                  ~IsOk(result) /\ fs = before
            /\ IsOk(result) =>
                  (result.v.created <=> (before[path] # Dir /\ fs[path] = Dir))

\* C23 witness: the directory and its missing parent were created.
C23_Witness ==
    /\ fscall # None
    /\ fscall.name = "directory_make"
    /\ fscall.params.parents
    /\ parent(fscall.params.path) # <<>>
    /\ fscall.before[parent(fscall.params.path)] = Absent
    /\ IsOk(fscall.result)
    /\ fscall.result.v.created
    /\ fs[fscall.params.path] = Dir
    /\ fs[parent(fscall.params.path)] = Dir

(***************************************************************************)
(* Failing and returning dispatches (Spec, SpecLive)                       *)
(***************************************************************************)
\* The call c enters dispatch in this step with a request of the expected
\* version and a registered method.
Routed(c) ==
    /\ pc[c] = "idle" /\ pc'[c] # "idle"
    /\ request'[c] \in Envelopes
    /\ request'[c].m["jsonrpc"] = Str("2.0")
    /\ request'[c].m["method"].s \in DOMAIN handlers

\* Params that are no object cannot be decoded into directory_make's Params
\* struct, wrapped or not.
Undecodable(c) ==
    /\ handlers[request'[c].m["method"].s].tool = "directory_make"
    /\ ~IsObject(request'[c].m["params"])

\* C24: if the decode-direction transform or the typed decode of the params
\* fails, the tool's execute is never invoked for that request: the handler
\* stops at the first failing step.
C24_NoExecuteAfterDecodeFailure ==
    [][\A c \in DOMAIN pc :
        /\ (/\ Routed(c)
            /\ \/ Undecodable(c)
               \/ ~IsOk(decode(handlers[request'[c].m["method"].s],
                                request'[c].m["params"]))) =>
              /\ pc'[c] = "done"
              /\ steps'[c] = Prologue
              /\ typed'[c] = None
              /\ executed'[c] = None
              /\ IsFailure(response'[c])
        /\ (pc[c] = "done" /\ executed[c] = None) => executed'[c] = None
        /\ executed'[c] # executed[c] => pc[c] = "awaiting"
      ]_vars

\* C24 witness: directory_make was sent a number and its execute never ran.
C24_Witness ==
    \E c \in DOMAIN pc :
        /\ Done(c)
        /\ invoked[c] # <<>>
        /\ invoked[c][1].handler.tool = "directory_make"
        /\ Field(c, "params") = Num(1)
        /\ executed[c] = None
        /\ steps[c] = Prologue

\* C25: every dispatch of a parseable request eventually returns a response
\* provided the invoked tool's execute eventually completes (a dispatch that
\* reaches no tool returns at once); the dispatcher imposes no timeout and no
\* cancellation, so a dispatch returns only after its tool's execute has
\* completed.
C25_DispatchReturns ==
    /\ \A c \in ConcurrentCalls : (pc[c] = "awaiting") ~> (pc[c] = "done")
    /\ [](\A c \in ConcurrentCalls :
            /\ (pc[c] # "idle" /\ typed[c] = None) => pc[c] = "done"
            /\ (pc[c] = "done" /\ Parses(c)) => ret[c] = "ok"
            /\ (pc[c] = "done" /\ typed[c] # None) => executed[c] # None)

\* C25 witness: a dispatch that waited for its tool has returned a response.
C25_Witness ==
    \E c \in ConcurrentCalls :
        /\ pc[c] = "done"
        /\ typed[c] # None
        /\ executed[c] # None
        /\ ret[c] = "ok"
        /\ "execute" \in {steps[c][i] : i \in 1..Len(steps[c])}

(***************************************************************************)
(* Method names (SpecNames)                                                *)
(***************************************************************************)
\* C26: every method name stored in the registry is non-empty: no sequence
\* of register calls leaves an entry under the empty string, so a request
\* whose method is the empty string is always answered with -32601.
C26_NoEmptyMethodName ==
    /\ "" \notin DOMAIN handlers
    /\ \A c \in DOMAIN pc :
          (/\ Done(c)
           /\ IsOk(from_str(request[c]))
           /\ from_str(request[c]).v.jsonrpc = "2.0"
           /\ from_str(request[c]).v.method = "") =>
              FailureWith(c, -32601)


(***************************************************************************)
(* C27: the dispatcher create_bedrock_dispatcher_with_schemas returns is a *)
(* Bedrock dispatcher: its format configuration is the one of              *)
(* create_bedrock_dispatcher's, Bedrock input and Bedrock output, and it   *)
(* registers the same ten method names.                                    *)
(***************************************************************************)
C27_SchemasDispatcherIsBedrock ==
    built = "create_bedrock_dispatcher_with_schemas" =>
        /\ transformer = create_bedrock_dispatcher.transformer
        /\ transformer.input_format = "Bedrock"
        /\ transformer.output_format = "Bedrock"
        /\ \A m \in DOMAIN handlers :
              handlers[m].transformer = create_bedrock_dispatcher.transformer
        /\ DOMAIN handlers = DOMAIN create_bedrock_dispatcher.handlers
        /\ Cardinality(DOMAIN handlers) = 10

\* The part of C27 about the method names alone.
C27_SameTenNames ==
    built = "create_bedrock_dispatcher_with_schemas" =>
        /\ DOMAIN handlers = DOMAIN create_bedrock_dispatcher.handlers
        /\ Cardinality(DOMAIN handlers) = 10

(***************************************************************************)
(* C28: from_bedrock_format(to_bedrock_format(v)) = v for every JSON value *)
(* v without exception, the values included that are, or that contain, an  *)
(* object with both a "type" and a "text" key; to_bedrock_format is        *)
(* therefore injective: no other tree has the wrapped form of v.           *)
(***************************************************************************)
\* The trees of one level: the leaves, and the objects and arrays of leaves
\* a wrapped form could be confused with.
Shallow ==
    Leaves
    \cup {TextWrapper(l) : l \in Leaves}
    \cup {Obj([k \in {key} |-> l]) : key \in Keys, l \in Leaves}
    \cup {Arr(<<l>>) : l \in Leaves}
    \cup {Obj(<<>>), Arr(<<>>)}

TypeIsText(v) ==
    /\ contains_key(v, "type")
    /\ IsString(v.m["type"])
    /\ v.m["type"].s = "text"

C29_CollapseRule ==
    (op = "unwrap" /\ IsObject(val)) =>
        IF TypeIsText(val) /\ contains_key(val, "text")
        THEN /\ WrappersCollapsed(val.m["text"], out)
             /\ (~IsObject(val.m["text"]) /\ ~IsArray(val.m["text"])) =>
                    out = val.m["text"]
        ELSE /\ IsObject(out)
             /\ DOMAIN out.m = DOMAIN val.m
             /\ \A k \in DOMAIN val.m : WrappersCollapsed(val.m[k], out.m[k])

\* C29 witness: {"type":"text","text":1,"x":1} is replaced by 1, the member
\* "x" is gone.
C29_Witness ==
    /\ op = "unwrap"
    /\ val = Obj([type |-> Str("text"), text |-> Num(1), x |-> Num(1)])
    /\ out = Num(1)

\* C29, the other side: objects whose "type" is a number, or the string
\* "a", or absent, each with a "text" member, are kept with their keys.
C29_KeptReached ==
    /\ op = "unwrap"
    /\ IsObject(val)
    /\ contains_key(val, "text")
    /\ ~TypeIsText(val)
    /\ contains_key(val, "type")
    /\ val.m["type"] \in {Num(1), Str("a")}
    /\ IsObject(out)
    /\ DOMAIN out.m = DOMAIN val.m


(***************************************************************************)
(* C30: a request document that is valid JSON but lacks any one of the     *)
(* four fields jsonrpc, method, params, id is a parse failure: dispatch    *)
(* returns a hard error, no Failure envelope, and calls no handler, even   *)
(* when the id is present and could have been echoed.                      *)
(***************************************************************************)
\* The request of call c is a JSON object that lacks exactly `field`.
Lacks(c, field) ==
    /\ request[c] \in IncompleteDocs
    /\ DOMAIN request[c].m = RawRequestFields \ {field}

C30_MissingFieldIsParseFailure ==
    \A c \in Calls, field \in RawRequestFields :
        (Done(c) /\ Lacks(c, field)) =>
            /\ ~IsOk(from_str(request[c]))
            /\ ret[c] = "err"
            /\ response[c] = None
            /\ invoked[c] = <<>>
            /\ executed[c] = None

\* C30 witness: a request without "method", its id 1 present, sent to a
\* dispatcher with handlers registered, came back as a hard error.
C30_Witness ==
    \E c \in Calls :
        /\ Done(c)
        /\ Lacks(c, "method")
        /\ request[c].m["id"] = Num(1)
        /\ handlers # <<>>
        /\ ret[c] = "err"
        /\ response[c] = None

====
